---- MODULE Spec2Model ----
(***************************************************************************)
(* CasperLiquid (src/src/lib.rs): a liquid staking ledger.  The contract   *)
(* struct is one record-valued variable; every entry point is a pure       *)
(* operator from (struct, caller, arguments) to (struct, Result, events),  *)
(* written statement by statement after the Rust code, and an action that  *)
(* applies it for some caller and arguments.                               *)
(***************************************************************************)
EXTENDS Integers, Sequences, FiniteSets, TLC

(* ------------------------------ bounds --------------------------------- *)
\* validate_amount's ceiling (max_amount, U256::from(u128::MAX) in the
\* source), scaled down.
MAX_AMOUNT == 2

(* ------------------------------ domains -------------------------------- *)
\* Largest value of the quantity type U256, scaled with the ceiling: as in the
\* source, the type holds the sum of two amounts that pass validate_amount
\* (u128::MAX + u128::MAX < 2^256) and the ceiling is strictly below it.
U256_MAX == 2 * MAX_AMOUNT
\* Account identifiers the host can supply as caller or argument.
Address == {"a1", "a2", "a3"}
\* env().self_address(): the contract's own identity, used in mint/burn events.
self_address == "contract"
\* env().block_time()
block_time == 0
\* Amounts a call is tried with: zero, every valid amount, one above the ceiling.
Amounts == 0 .. (MAX_AMOUNT + 1)
\* Amounts an approval is tried with (approve itself accepts any U256).
ApproveAmounts == 0 .. MAX_AMOUNT
\* (owner, spender) pairs an approval is tried for, besides self-approvals.
ApprovePairs == {<<"a1", "a2">>, <<"a2", "a3">>}
\* The (owner, spender) pair an approval above the ceiling is tried for.
LargeApprovePairs == {<<"a1", "a2">>}
\* Amounts a call that is followed statement by statement is tried with: zero
\* and every valid amount.
StepAmounts == 0 .. MAX_AMOUNT

\* contract: the CasperLiquid struct; ret: the Result of the most recent call;
\* frame: the call that is executing, when calls are followed statement by
\* statement (SpecSteps), and the idle frame otherwise.
VARIABLES contract, ret, frame, log

vars == <<contract, ret, frame, log>>

(* ------------------------------ Result --------------------------------- *)
Ok(v) == [ok |-> TRUE, val |-> v, err |-> "None"]
Err(e) == [ok |-> FALSE, val |-> 0, err |-> e]

Error == {"InsufficientBalance", "InsufficientAllowance", "InvalidAmount",
          "SelfTransfer", "ArithmeticOverflow", "ArithmeticUnderflow",
          "InvalidAddress", "ExceedsMaximum"}

\* What an entry point hands back: the struct as the call left it, the
\* returned Result ("Ok" or the error kind) and the events it emitted.
Outcome(self, res, events) == [self |-> self, res |-> res, events |-> events]

(* ------------------------------ events --------------------------------- *)
StakeEvent(user, cspr_amount, stcspr_minted, timestamp) ==
    [type |-> "StakeEvent", user |-> user, cspr_amount |-> cspr_amount,
     stcspr_minted |-> stcspr_minted, timestamp |-> timestamp]

UnstakeEvent(user, stcspr_burned, cspr_returned, timestamp) ==
    [type |-> "UnstakeEvent", user |-> user, stcspr_burned |-> stcspr_burned,
     cspr_returned |-> cspr_returned, timestamp |-> timestamp]

Transfer(from, to, amount) ==
    [type |-> "Transfer", from |-> from, to |-> to, amount |-> amount]

Approval(owner, spender, amount) ==
    [type |-> "Approval", owner |-> owner, spender |-> spender, amount |-> amount]

(* ------------------------------ init ----------------------------------- *)
\* The struct after deployment: empty mappings read as zero, init() sets the
\* metadata and both aggregates.
\* Faulty variant: init() sets 18 decimals.
init_eighteen_decimals ==
    [balances |-> [a \in Address |-> 0],
     allowances |-> [p \in Address \X Address |-> 0],
     total_staked |-> 0,
     contract_cspr_balance |-> 0,
     name |-> "Staked CSPR",
     symbol |-> "stCSPR",
     decimals |-> 18]

init ==
    [balances |-> [a \in Address |-> 0],
     allowances |-> [p \in Address \X Address |-> 0],
     total_staked |-> 0,
     contract_cspr_balance |-> 0,
     name |-> "Staked CSPR",
     symbol |-> "stCSPR",
     decimals |-> 9]

(* ------------------------------ validators ----------------------------- *)
\* Faulty variant: the zero check is missing.
validate_amount_accepts_zero(amount) ==
    IF amount > MAX_AMOUNT THEN Err("ExceedsMaximum")
    ELSE Ok(0)

\* Faulty variant: the ceiling itself is refused (>= for >).
validate_amount_ceiling_inclusive(amount) ==
    IF amount = 0 THEN Err("InvalidAmount")
    ELSE IF amount >= MAX_AMOUNT THEN Err("ExceedsMaximum")
    ELSE Ok(0)

\* Faulty variant: there is no ceiling.
validate_amount_no_ceiling(amount) ==
    IF amount = 0 THEN Err("InvalidAmount") ELSE Ok(0)

validate_amount(amount) ==
    IF amount = 0 THEN Err("InvalidAmount")
    ELSE IF amount > MAX_AMOUNT THEN Err("ExceedsMaximum")
    ELSE Ok(0)

validate_address(address) == Ok(0)

\* Faulty variant: the sum wraps around instead of failing (wrapping_add).
safe_add_wrapping(a, b) == Ok((a + b) % (U256_MAX + 1))

safe_add(a, b) ==
    IF a + b > U256_MAX THEN Err("ArithmeticOverflow") ELSE Ok(a + b)

\* Faulty variant: an exact subtraction (b = a) is refused as an underflow.
safe_sub_off_by_one(a, b) ==
    IF b >= a THEN Err("ArithmeticUnderflow") ELSE Ok(a - b)

\* Faulty variant: the difference saturates at zero instead of failing
\* (saturating_sub).
safe_sub_saturating(a, b) == IF b > a THEN Ok(0) ELSE Ok(a - b)

safe_sub(a, b) ==
    IF b > a THEN Err("ArithmeticUnderflow") ELSE Ok(a - b)

\* Faulty variant: a balance equal to the required amount is refused (<= for <).
validate_sufficient_balance_strict(balance, required) ==
    IF balance <= required THEN Err("InsufficientBalance") ELSE Ok(0)

\* Faulty variant: the comparison is the wrong way round.
validate_sufficient_balance_reversed(balance, required) ==
    IF balance > required THEN Err("InsufficientBalance") ELSE Ok(0)

validate_sufficient_balance(balance, required) ==
    IF balance < required THEN Err("InsufficientBalance") ELSE Ok(0)

\* Faulty variant: an allowance one short of the amount is let through.
validate_sufficient_allowance_one_short(allowance_, required) ==
    IF allowance_ + 1 < required THEN Err("InsufficientAllowance") ELSE Ok(0)

\* Faulty variant: the allowance is not checked.
validate_sufficient_allowance_unchecked(allowance_, required) == Ok(0)

validate_sufficient_allowance(allowance_, required) ==
    IF allowance_ < required THEN Err("InsufficientAllowance") ELSE Ok(0)

(* ------------------------------ views ---------------------------------- *)
name(self) == self.name
symbol(self) == self.symbol
decimals(self) == self.decimals
total_supply(self) == self.total_staked
balance_of(self, owner) == self.balances[owner]
allowance(self, owner, spender) == self.allowances[<<owner, spender>>]
contract_cspr_balance(self) == self.contract_cspr_balance
validate_supply_consistency(self) ==
    total_supply(self) = contract_cspr_balance(self)

validate_state_consistency(self) ==
    IF total_supply(self) # contract_cspr_balance(self)
    THEN Err("ArithmeticOverflow")
    ELSE Ok(0)

(* ------------------------------ entry points --------------------------- *)
\* Faulty variant: the sender is debited, the recipient's credit is lost.
_transfer_effects_drops_credit(self, from, to, new_from_balance, new_to_balance) ==
    [self EXCEPT !.balances[from] = new_from_balance]

\* Faulty variant: the recipient's new balance is written under the sender's key.
_transfer_effects_wrong_key(self, from, to, new_from_balance, new_to_balance) ==
    LET s1 == [self EXCEPT !.balances[from] = new_from_balance]
        s2 == [s1 EXCEPT !.balances[from] = new_to_balance] IN
    s2

\* EFFECTS block of _transfer: the two balance writes, in order.
_transfer_effects(self, from, to, new_from_balance, new_to_balance) ==
    LET s1 == [self EXCEPT !.balances[from] = new_from_balance]
        s2 == [s1 EXCEPT !.balances[to] = new_to_balance] IN
    s2

\* Faulty variant: the sender's balance is checked before from = to.
_transfer_balance_first(self, from, to, amount) ==
    IF ~validate_amount(amount).ok
    THEN Outcome(self, validate_amount(amount).err, <<>>)
    ELSE
    LET from_balance == self.balances[from] IN
    IF ~validate_sufficient_balance(from_balance, amount).ok
    THEN Outcome(self, validate_sufficient_balance(from_balance, amount).err, <<>>)
    ELSE IF from = to
    THEN Outcome(self, "SelfTransfer", <<>>)
    ELSE
    LET new_from_balance == safe_sub(from_balance, amount)
        new_to_balance == safe_add(self.balances[to], amount) IN
    IF ~new_from_balance.ok
    THEN Outcome(self, new_from_balance.err, <<>>)
    ELSE IF ~new_to_balance.ok
    THEN Outcome(self, new_to_balance.err, <<>>)
    ELSE
    Outcome(_transfer_effects(self, from, to, new_from_balance.val, new_to_balance.val),
            "Ok", <<Transfer(from, to, amount)>>)

\* fn _transfer(&mut self, from, to, amount)
\* Faulty variant: the Transfer event has source and destination exchanged.
_transfer_swapped_event(self, from, to, amount) ==
    IF ~validate_amount(amount).ok
    THEN Outcome(self, validate_amount(amount).err, <<>>)
    ELSE IF from = to
    THEN Outcome(self, "SelfTransfer", <<>>)
    ELSE IF ~validate_sufficient_balance(self.balances[from], amount).ok
    THEN Outcome(self, "InsufficientBalance", <<>>)
    ELSE IF ~safe_add(self.balances[to], amount).ok
    THEN Outcome(self, "ArithmeticOverflow", <<>>)
    ELSE
    Outcome(_transfer_effects(self, from, to, self.balances[from] - amount,
                              self.balances[to] + amount),
            "Ok", <<Transfer(to, from, amount)>>)

_transfer(self, from, to, amount) ==
    IF ~validate_amount(amount).ok
    THEN Outcome(self, validate_amount(amount).err, <<>>)
    ELSE IF ~validate_address(from).ok
    THEN Outcome(self, validate_address(from).err, <<>>)
    ELSE IF ~validate_address(to).ok
    THEN Outcome(self, validate_address(to).err, <<>>)
    ELSE IF from = to
    THEN Outcome(self, "SelfTransfer", <<>>)
    ELSE
    LET from_balance == self.balances[from] IN
    IF ~validate_sufficient_balance(from_balance, amount).ok
    THEN Outcome(self, validate_sufficient_balance(from_balance, amount).err, <<>>)
    ELSE
    LET new_from_balance == safe_sub(from_balance, amount) IN
    IF ~new_from_balance.ok
    THEN Outcome(self, new_from_balance.err, <<>>)
    ELSE
    LET to_balance == self.balances[to]
        new_to_balance == safe_add(to_balance, amount) IN
    IF ~new_to_balance.ok
    THEN Outcome(self, new_to_balance.err, <<>>)
    ELSE
    Outcome(_transfer_effects(self, from, to, new_from_balance.val, new_to_balance.val),
            "Ok", <<Transfer(from, to, amount)>>)

\* pub fn transfer(&mut self, recipient, amount), called by `caller`
transfer(self, caller, recipient, amount) ==
    IF ~validate_amount(amount).ok
    THEN Outcome(self, validate_amount(amount).err, <<>>)
    ELSE IF ~validate_address(recipient).ok
    THEN Outcome(self, validate_address(recipient).err, <<>>)
    ELSE _transfer(self, caller, recipient, amount)

\* Faulty variant: the amount is added to the previous allowance (saturating).
approve_increments(self, caller, spender, amount) ==
    IF ~validate_address(spender).ok
    THEN Outcome(self, validate_address(spender).err, <<>>)
    ELSE IF caller = spender
    THEN Outcome(self, "SelfTransfer", <<>>)
    ELSE
    LET sum == self.allowances[<<caller, spender>>] + amount
        s1 == [self EXCEPT !.allowances[<<caller, spender>>] =
                   IF sum > U256_MAX THEN U256_MAX ELSE sum] IN
    Outcome(s1, "Ok", <<Approval(caller, spender, amount)>>)

\* Faulty variant: a self-approval of zero (an allowance reset) is let through.
approve_zero_exempt(self, caller, spender, amount) ==
    IF ~validate_address(spender).ok
    THEN Outcome(self, validate_address(spender).err, <<>>)
    ELSE IF caller = spender /\ amount # 0
    THEN Outcome(self, "SelfTransfer", <<>>)
    ELSE
    LET s1 == [self EXCEPT !.allowances[<<caller, spender>>] = amount] IN
    Outcome(s1, "Ok", <<Approval(caller, spender, amount)>>)

\* pub fn approve(&mut self, spender, amount), called by `caller`
\* Faulty variant: the caller may approve itself.
approve_allows_self(self, caller, spender, amount) ==
    Outcome([self EXCEPT !.allowances[<<caller, spender>>] = amount],
            "Ok", <<Approval(caller, spender, amount)>>)

approve(self, caller, spender, amount) ==
    IF ~validate_address(spender).ok
    THEN Outcome(self, validate_address(spender).err, <<>>)
    ELSE IF caller = spender
    THEN Outcome(self, "SelfTransfer", <<>>)
    ELSE
    LET s1 == [self EXCEPT !.allowances[<<caller, spender>>] = amount] IN
    Outcome(s1, "Ok", <<Approval(caller, spender, amount)>>)

\* Faulty variant: the key's owner and spender are swapped.
transfer_from_effects_swapped_key(self, owner, caller, new_allowance) ==
    [self EXCEPT !.allowances[<<caller, owner>>] = new_allowance]

\* The allowance write that ends transfer_from.
\* Faulty variant: the allowance is lowered by one unit too few.
transfer_from_effects_one_short(self, owner, caller, new_allowance) ==
    [self EXCEPT !.allowances[<<owner, caller>>] = new_allowance + 1]

\* Faulty variant: the allowance is left as it was.
transfer_from_effects_keeps_allowance(self, owner, caller, new_allowance) == self

transfer_from_effects(self, owner, caller, new_allowance) ==
    [self EXCEPT !.allowances[<<owner, caller>>] = new_allowance]

\* Faulty variant: the funds are taken from the caller instead of the owner.
transfer_from_moves_callers_funds(self, caller, owner, recipient, amount) ==
    IF ~validate_amount(amount).ok
    THEN Outcome(self, validate_amount(amount).err, <<>>)
    ELSE
    LET current_allowance == self.allowances[<<owner, caller>>] IN
    IF ~validate_sufficient_allowance(current_allowance, amount).ok
    THEN Outcome(self, validate_sufficient_allowance(current_allowance, amount).err, <<>>)
    ELSE
    LET moved == _transfer(self, caller, recipient, amount) IN
    IF moved.res # "Ok"
    THEN moved
    ELSE
    LET new_allowance == safe_sub(current_allowance, amount) IN
    IF ~new_allowance.ok
    THEN Outcome(moved.self, new_allowance.err, moved.events)
    ELSE
    Outcome(transfer_from_effects(moved.self, owner, caller, new_allowance.val),
            "Ok", moved.events)

\* Faulty variant: the balances are moved before the allowance is checked.
transfer_from_transfer_first(self, caller, owner, recipient, amount) ==
    IF ~validate_amount(amount).ok
    THEN Outcome(self, validate_amount(amount).err, <<>>)
    ELSE
    LET moved == _transfer(self, owner, recipient, amount) IN
    IF moved.res # "Ok"
    THEN moved
    ELSE
    LET current_allowance == self.allowances[<<owner, caller>>] IN
    IF ~validate_sufficient_allowance(current_allowance, amount).ok
    THEN Outcome(moved.self, validate_sufficient_allowance(current_allowance, amount).err,
                 moved.events)
    ELSE
    LET new_allowance == safe_sub(current_allowance, amount) IN
    IF ~new_allowance.ok
    THEN Outcome(moved.self, new_allowance.err, moved.events)
    ELSE
    Outcome(transfer_from_effects(moved.self, owner, caller, new_allowance.val),
            "Ok", moved.events)

\* Faulty variant: the allowance is written down before the balances are moved.
transfer_from_allowance_first(self, caller, owner, recipient, amount) ==
    IF ~validate_amount(amount).ok
    THEN Outcome(self, validate_amount(amount).err, <<>>)
    ELSE
    LET current_allowance == self.allowances[<<owner, caller>>] IN
    IF ~validate_sufficient_allowance(current_allowance, amount).ok
    THEN Outcome(self, validate_sufficient_allowance(current_allowance, amount).err, <<>>)
    ELSE
    LET new_allowance == safe_sub(current_allowance, amount) IN
    IF ~new_allowance.ok
    THEN Outcome(self, new_allowance.err, <<>>)
    ELSE
    LET spent == transfer_from_effects(self, owner, caller, new_allowance.val)
        moved == _transfer(spent, owner, recipient, amount) IN
    moved

\* pub fn transfer_from(&mut self, owner, recipient, amount), called by `caller`
\* Faulty variant: owner = recipient is refused before the allowance is looked at.
transfer_from_self_first(self, caller, owner, recipient, amount) ==
    IF ~validate_amount(amount).ok
    THEN Outcome(self, validate_amount(amount).err, <<>>)
    ELSE IF owner = recipient
    THEN Outcome(self, "SelfTransfer", <<>>)
    ELSE
    LET current_allowance == self.allowances[<<owner, caller>>] IN
    IF ~validate_sufficient_allowance(current_allowance, amount).ok
    THEN Outcome(self, validate_sufficient_allowance(current_allowance, amount).err, <<>>)
    ELSE
    LET moved == _transfer(self, owner, recipient, amount) IN
    IF moved.res # "Ok"
    THEN moved
    ELSE
    Outcome(transfer_from_effects(moved.self, owner, caller, current_allowance - amount),
            "Ok", moved.events)

\* Faulty variant: the Transfer event names the calling spender as the source.
transfer_from_names_spender(self, caller, owner, recipient, amount) ==
    IF ~validate_amount(amount).ok
    THEN Outcome(self, validate_amount(amount).err, <<>>)
    ELSE
    LET current_allowance == self.allowances[<<owner, caller>>] IN
    IF ~validate_sufficient_allowance(current_allowance, amount).ok
    THEN Outcome(self, validate_sufficient_allowance(current_allowance, amount).err, <<>>)
    ELSE
    LET moved == _transfer(self, owner, recipient, amount) IN
    IF moved.res # "Ok"
    THEN moved
    ELSE
    Outcome(transfer_from_effects(moved.self, owner, caller, current_allowance - amount),
            "Ok", <<Transfer(caller, recipient, amount)>>)

transfer_from(self, caller, owner, recipient, amount) ==
    IF ~validate_amount(amount).ok
    THEN Outcome(self, validate_amount(amount).err, <<>>)
    ELSE IF ~validate_address(owner).ok
    THEN Outcome(self, validate_address(owner).err, <<>>)
    ELSE IF ~validate_address(recipient).ok
    THEN Outcome(self, validate_address(recipient).err, <<>>)
    ELSE
    LET current_allowance == self.allowances[<<owner, caller>>] IN
    IF ~validate_sufficient_allowance(current_allowance, amount).ok
    THEN Outcome(self, validate_sufficient_allowance(current_allowance, amount).err, <<>>)
    ELSE
    LET moved == _transfer(self, owner, recipient, amount) IN
    IF moved.res # "Ok"
    THEN moved
    ELSE
    LET new_allowance == safe_sub(current_allowance, amount) IN
    IF ~new_allowance.ok
    THEN Outcome(moved.self, new_allowance.err, moved.events)
    ELSE
    Outcome(transfer_from_effects(moved.self, owner, caller, new_allowance.val),
            "Ok", moved.events)

\* Faulty variant: the custody pool is not credited.
stake_effects_no_custody(self, caller, new_balance, new_total_supply, new_contract_balance) ==
    LET s1 == [self EXCEPT !.balances[caller] = new_balance]
        s2 == [s1 EXCEPT !.total_staked = new_total_supply] IN
    s2

\* Faulty variant: the caller's balance is overwritten with the new total.
stake_effects_mixed_up(self, caller, new_balance, new_total_supply, new_contract_balance) ==
    LET s1 == [self EXCEPT !.balances[caller] = new_total_supply]
        s2 == [s1 EXCEPT !.total_staked = new_total_supply]
        s3 == [s2 EXCEPT !.contract_cspr_balance = new_contract_balance] IN
    s3

\* EFFECTS block of stake: the three writes, in order.
stake_effects(self, caller, new_balance, new_total_supply, new_contract_balance) ==
    LET s1 == [self EXCEPT !.balances[caller] = new_balance]
        s2 == [s1 EXCEPT !.total_staked = new_total_supply]
        s3 == [s2 EXCEPT !.contract_cspr_balance = new_contract_balance] IN
    s3

\* Faulty variant: the Transfer event is emitted before the StakeEvent.
stake_transfer_first(self, caller, amount) ==
    IF ~validate_amount(amount).ok
    THEN Outcome(self, validate_amount(amount).err, <<>>)
    ELSE IF ~validate_state_consistency(self).ok
    THEN Outcome(self, validate_state_consistency(self).err, <<>>)
    ELSE
    LET new_balance == safe_add(self.balances[caller], amount)
        new_total_supply == safe_add(self.total_staked, amount)
        new_contract_balance == safe_add(self.contract_cspr_balance, amount) IN
    IF ~new_balance.ok
    THEN Outcome(self, new_balance.err, <<>>)
    ELSE IF ~new_total_supply.ok
    THEN Outcome(self, new_total_supply.err, <<>>)
    ELSE IF ~new_contract_balance.ok
    THEN Outcome(self, new_contract_balance.err, <<>>)
    ELSE
    Outcome(stake_effects(self, caller, new_balance.val, new_total_supply.val,
                          new_contract_balance.val),
            "Ok", <<Transfer(self_address, caller, amount),
                    StakeEvent(caller, amount, amount, block_time)>>)

\* pub fn stake(&mut self, amount), called by `caller`
stake(self, caller, amount) ==
    IF ~validate_amount(amount).ok
    THEN Outcome(self, validate_amount(amount).err, <<>>)
    ELSE IF ~validate_state_consistency(self).ok
    THEN Outcome(self, validate_state_consistency(self).err, <<>>)
    ELSE
    LET current_balance == self.balances[caller]
        current_total_supply == self.total_staked
        current_contract_balance == self.contract_cspr_balance
        new_balance == safe_add(current_balance, amount)
        new_total_supply == safe_add(current_total_supply, amount)
        new_contract_balance == safe_add(current_contract_balance, amount) IN
    IF ~new_balance.ok
    THEN Outcome(self, new_balance.err, <<>>)
    ELSE IF ~new_total_supply.ok
    THEN Outcome(self, new_total_supply.err, <<>>)
    ELSE IF ~new_contract_balance.ok
    THEN Outcome(self, new_contract_balance.err, <<>>)
    ELSE
    LET s3 == stake_effects(self, caller, new_balance.val, new_total_supply.val,
                            new_contract_balance.val) IN
    IF ~validate_state_consistency(s3).ok
    THEN Outcome(s3, validate_state_consistency(s3).err, <<>>)
    ELSE
    LET timestamp == block_time
        contract_address == self_address IN
    Outcome(s3, "Ok", <<StakeEvent(caller, amount, amount, timestamp),
                        Transfer(contract_address, caller, amount)>>)

\* Faulty variant: the burn leaves Total Issued and the custody pool as they were.
unstake_effects_balance_only(self, caller, new_balance, new_total_supply, new_contract_balance) ==
    [self EXCEPT !.balances[caller] = new_balance]

\* Faulty variant: the caller's balance is overwritten with the new total.
unstake_effects_mixed_up(self, caller, new_balance, new_total_supply, new_contract_balance) ==
    LET s1 == [self EXCEPT !.balances[caller] = new_total_supply]
        s2 == [s1 EXCEPT !.total_staked = new_total_supply]
        s3 == [s2 EXCEPT !.contract_cspr_balance = new_contract_balance] IN
    s3

\* Faulty variant: the custody pool is paid out but Total Issued is not lowered.
unstake_effects_keeps_total(self, caller, new_balance, new_total_supply, new_contract_balance) ==
    LET s1 == [self EXCEPT !.balances[caller] = new_balance]
        s3 == [s1 EXCEPT !.contract_cspr_balance = new_contract_balance] IN
    s3

\* Faulty variant: the burn lowers both aggregates but not the caller's balance.
unstake_effects_keeps_balance(self, caller, new_balance, new_total_supply, new_contract_balance) ==
    LET s2 == [self EXCEPT !.total_staked = new_total_supply]
        s3 == [s2 EXCEPT !.contract_cspr_balance = new_contract_balance] IN
    s3

\* EFFECTS block of unstake: the three writes, in order.
unstake_effects(self, caller, new_balance, new_total_supply, new_contract_balance) ==
    LET s1 == [self EXCEPT !.balances[caller] = new_balance]
        s2 == [s1 EXCEPT !.total_staked = new_total_supply]
        s3 == [s2 EXCEPT !.contract_cspr_balance = new_contract_balance] IN
    s3

\* Faulty variant: the amount is checked against Total Issued, not against the
\* caller's balance.
unstake_checks_total(self, caller, amount) ==
    IF ~validate_amount(amount).ok
    THEN Outcome(self, validate_amount(amount).err, <<>>)
    ELSE IF ~validate_state_consistency(self).ok
    THEN Outcome(self, validate_state_consistency(self).err, <<>>)
    ELSE
    LET current_balance == self.balances[caller]
        current_total_supply == self.total_staked
        current_contract_balance == self.contract_cspr_balance IN
    IF ~validate_sufficient_balance(current_total_supply, amount).ok
    THEN Outcome(self, validate_sufficient_balance(current_total_supply, amount).err, <<>>)
    ELSE
    LET new_balance == safe_sub(current_balance, amount)
        new_total_supply == safe_sub(current_total_supply, amount)
        new_contract_balance == safe_sub(current_contract_balance, amount) IN
    IF ~new_balance.ok
    THEN Outcome(self, new_balance.err, <<>>)
    ELSE IF ~new_total_supply.ok
    THEN Outcome(self, new_total_supply.err, <<>>)
    ELSE IF ~new_contract_balance.ok
    THEN Outcome(self, new_contract_balance.err, <<>>)
    ELSE
    Outcome(unstake_effects(self, caller, new_balance.val, new_total_supply.val,
                            new_contract_balance.val),
            "Ok", <<UnstakeEvent(caller, amount, amount, block_time),
                    Transfer(caller, self_address, amount)>>)

\* Faulty variant: a withdraw must leave something behind (the whole balance
\* cannot be withdrawn).
unstake_keeps_dust(self, caller, amount) ==
    IF ~validate_amount(amount).ok
    THEN Outcome(self, validate_amount(amount).err, <<>>)
    ELSE IF ~validate_state_consistency(self).ok
    THEN Outcome(self, validate_state_consistency(self).err, <<>>)
    ELSE IF ~validate_sufficient_balance(self.balances[caller], amount + 1).ok
    THEN Outcome(self, "InsufficientBalance", <<>>)
    ELSE
    Outcome(unstake_effects(self, caller, self.balances[caller] - amount,
                            self.total_staked - amount,
                            self.contract_cspr_balance - amount),
            "Ok", <<UnstakeEvent(caller, amount, amount, block_time),
                    Transfer(caller, self_address, amount)>>)

\* pub fn unstake(&mut self, amount), called by `caller`
unstake(self, caller, amount) ==
    IF ~validate_amount(amount).ok
    THEN Outcome(self, validate_amount(amount).err, <<>>)
    ELSE IF ~validate_state_consistency(self).ok
    THEN Outcome(self, validate_state_consistency(self).err, <<>>)
    ELSE
    LET current_balance == self.balances[caller] IN
    IF ~validate_sufficient_balance(current_balance, amount).ok
    THEN Outcome(self, validate_sufficient_balance(current_balance, amount).err, <<>>)
    ELSE
    LET current_total_supply == self.total_staked
        current_contract_balance == self.contract_cspr_balance
        new_balance == safe_sub(current_balance, amount)
        new_total_supply == safe_sub(current_total_supply, amount)
        new_contract_balance == safe_sub(current_contract_balance, amount) IN
    IF ~new_balance.ok
    THEN Outcome(self, new_balance.err, <<>>)
    ELSE IF ~new_total_supply.ok
    THEN Outcome(self, new_total_supply.err, <<>>)
    ELSE IF ~new_contract_balance.ok
    THEN Outcome(self, new_contract_balance.err, <<>>)
    ELSE
    LET s3 == unstake_effects(self, caller, new_balance.val, new_total_supply.val,
                              new_contract_balance.val) IN
    IF ~validate_state_consistency(s3).ok
    THEN Outcome(s3, validate_state_consistency(s3).err, <<>>)
    ELSE
    LET timestamp == block_time
        contract_address == self_address IN
    Outcome(s3, "Ok", <<UnstakeEvent(caller, amount, amount, timestamp),
                        Transfer(caller, contract_address, amount)>>)

(* ------------------------------ state machine -------------------------- *)
\* The Result the host hands back for the most recent call.
Returned(op, out) == [op |-> op, res |-> out.res]

\* No call is executing: nothing left to do, nothing done.
Idle ==
    [op |-> "none", caller |-> "", owner |-> "", to |-> "", amount |-> 0,
     pre |-> init, todo |-> <<>>, done |-> <<>>, emitted |-> <<>>]

\* What an observer of the calls and of the emitted events has added up:
\* the units minted less the units burned named by the StakeEvents and
\* UnstakeEvents; per account, the amounts of the Transfer events into it less
\* those out of it; and, per (owner, spender), the amount of the owner's
\* latest successful approve and what the spender's transfer_from calls have
\* taken from the owner since.
NoLog ==
    [issued |-> 0,
     net |-> [a \in Address |-> 0],
     granted |-> [p \in Address \X Address |-> 0],
     drawn |-> [p \in Address \X Address |-> 0]]

Init ==
    /\ contract = init
    /\ ret = [op |-> "init", res |-> "Ok"]
    /\ frame = Idle
    /\ log = NoLog

TransferCall ==
    \E caller \in Address, recipient \in Address, amount \in Amounts :
        LET out == transfer(contract, caller, recipient, amount) IN
        /\ contract' = out.self
        /\ ret' = Returned("transfer", out)
        /\ log' = log
        /\ frame' = frame

ApproveCall ==
    \E caller \in Address, spender \in Address, amount \in ApproveAmounts :
        LET out == approve(contract, caller, spender, amount) IN
        /\ caller = spender \/ <<caller, spender>> \in ApprovePairs
        /\ contract' = out.self
        /\ ret' = Returned("approve", out)
        /\ log' = log
        /\ frame' = frame

TransferFromCall ==
    \E caller \in Address, owner \in Address, recipient \in Address,
       amount \in Amounts :
        LET out == transfer_from(contract, caller, owner, recipient, amount) IN
        /\ contract' = out.self
        /\ ret' = Returned("transfer_from", out)
        /\ log' = log
        /\ frame' = frame

StakeCall ==
    \E caller \in Address, amount \in Amounts :
        LET out == stake(contract, caller, amount) IN
        /\ contract' = out.self
        /\ ret' = Returned("stake", out)
        /\ log' = log
        /\ frame' = frame

UnstakeCall ==
    \E caller \in Address, amount \in Amounts :
        LET out == unstake(contract, caller, amount) IN
        /\ contract' = out.self
        /\ ret' = Returned("unstake", out)
        /\ log' = log
        /\ frame' = frame

Next ==
    \/ TransferCall
    \/ ApproveCall
    \/ TransferFromCall
    \/ StakeCall
    \/ UnstakeCall

Spec == Init /\ [][Next]_vars

\* approve with any amount a call can carry, the ones above validate_amount's
\* ceiling included (approve does not call validate_amount), for the pairs of
\* LargeApprovePairs and for self-approvals.
ApproveLargeCall ==
    \E caller \in Address, spender \in Address, amount \in Amounts :
        LET out == approve(contract, caller, spender, amount) IN
        /\ caller = spender \/ <<caller, spender>> \in LargeApprovePairs
        /\ contract' = out.self
        /\ ret' = Returned("approve", out)
        /\ log' = log
        /\ frame' = frame

NextLarge ==
    \/ TransferCall
    \/ ApproveLargeCall
    \/ TransferFromCall
    \/ StakeCall
    \/ UnstakeCall

\* The same contract with allowances that may exceed the amount ceiling.
SpecLarge == Init /\ [][NextLarge]_vars

\* A stored struct whose two aggregates differ, the case
\* validate_state_consistency is written for. The fields of the struct are
\* independent Vars and Mappings; no call sequence from init() produces such
\* a struct, so it is drawn here as the input the entry points are applied to.
InitAnyLedger ==
    /\ contract \in {[init EXCEPT !.balances = b, !.total_staked = t,
                                  !.contract_cspr_balance = 1 - t] :
                         b \in [Address -> 0 .. 1], t \in 0 .. 1}
    /\ ret = [op |-> "init", res |-> "Ok"]
    /\ frame = Idle
    /\ log = NoLog

\* The entry points applied to a struct whose aggregates differ.
SpecAnyLedger == InitAnyLedger /\ [][NextLarge]_vars

(* ------------------------- calls with their log ------------------------ *)
\* One emitted event added to the totals.
record_event(l, e) ==
    CASE e.type = "StakeEvent" -> [l EXCEPT !.issued = @ + e.stcspr_minted]
      [] e.type = "UnstakeEvent" -> [l EXCEPT !.issued = @ - e.stcspr_burned]
      [] e.type = "Transfer" ->
            LET l1 == IF e.to \in Address
                      THEN [l EXCEPT !.net[e.to] = @ + e.amount] ELSE l IN
            IF e.from \in Address
            THEN [l1 EXCEPT !.net[e.from] = @ - e.amount] ELSE l1
      [] e.type = "Approval" -> l

RECURSIVE record_events(_, _)
record_events(l, events) ==
    IF events = <<>> THEN l
    ELSE record_events(record_event(l, Head(events)), Tail(events))

\* A finished call added to the log: its events, whatever it returned; for a
\* successful approve the new grant; for a successful transfer_from what left
\* the owner's balance.
record_call(l, op, caller, owner, to, amount, self, out) ==
    LET l1 == record_events(l, out.events) IN
    IF op = "approve" /\ out.res = "Ok"
    THEN [l1 EXCEPT !.granted[<<caller, to>>] = amount,
                    !.drawn[<<caller, to>>] = 0]
    ELSE IF op = "transfer_from" /\ out.res = "Ok"
    THEN [l1 EXCEPT !.drawn[<<owner, caller>>] =
                        @ + balance_of(self, owner) - balance_of(out.self, owner)]
    ELSE l1

TransferLogged ==
    \E caller \in Address, recipient \in Address, amount \in Amounts :
        LET out == transfer(contract, caller, recipient, amount) IN
        /\ contract' = out.self
        /\ ret' = Returned("transfer", out)
        /\ frame' = frame
        /\ log' = record_call(log, "transfer", caller, caller, recipient, amount,
                              contract, out)

ApproveLogged ==
    \E caller \in Address, spender \in Address, amount \in Amounts :
        LET out == approve(contract, caller, spender, amount) IN
        /\ caller = spender \/ <<caller, spender>> \in LargeApprovePairs
        /\ contract' = out.self
        /\ ret' = Returned("approve", out)
        /\ frame' = frame
        /\ log' = record_call(log, "approve", caller, caller, spender, amount,
                              contract, out)

TransferFromLogged ==
    \E caller \in Address, owner \in Address, recipient \in Address,
       amount \in Amounts :
        LET out == transfer_from(contract, caller, owner, recipient, amount) IN
        /\ contract' = out.self
        /\ ret' = Returned("transfer_from", out)
        /\ frame' = frame
        /\ log' = record_call(log, "transfer_from", caller, owner, recipient, amount,
                              contract, out)

StakeLogged ==
    \E caller \in Address, amount \in Amounts :
        LET out == stake(contract, caller, amount) IN
        /\ contract' = out.self
        /\ ret' = Returned("stake", out)
        /\ frame' = frame
        /\ log' = record_call(log, "stake", caller, caller, caller, amount,
                              contract, out)

UnstakeLogged ==
    \E caller \in Address, amount \in Amounts :
        LET out == unstake(contract, caller, amount) IN
        /\ contract' = out.self
        /\ ret' = Returned("unstake", out)
        /\ frame' = frame
        /\ log' = record_call(log, "unstake", caller, caller, caller, amount,
                              contract, out)

NextLog ==
    \/ TransferLogged
    \/ ApproveLogged
    \/ TransferFromLogged
    \/ StakeLogged
    \/ UnstakeLogged

\* The contract with the log of its calls and events.
SpecLog == Init /\ [][NextLog]_vars

(* ------------------ calls followed statement by statement -------------- *)
\* A statement of an entry point that matters to an observer, after the checks
\* that come before its first write: a later check that returns early with `?`
\* (its Result is known from the locals), the consistency check that reads the
\* struct when it runs, a write to storage, an emit_event, the final Ok(()).
Check(res) == [kind |-> "check", err |-> IF res.ok THEN "Ok" ELSE res.err]

CheckConsistency == [kind |-> "check_consistency"]

Write(var, key, val) == [kind |-> "write", var |-> var, key |-> key, val |-> val]

Emit(event) == [kind |-> "emit", event |-> event]

Return == [kind |-> "return"]

\* CHECKS block of _transfer: the Results of its checks, in order.
_transfer_checks(self, from, to, amount) ==
    LET from_balance == self.balances[from]
        to_balance == self.balances[to] IN
    << validate_amount(amount),
       validate_address(from),
       validate_address(to),
       IF from = to THEN Err("SelfTransfer") ELSE Ok(0),
       validate_sufficient_balance(from_balance, amount),
       safe_sub(from_balance, amount),
       safe_add(to_balance, amount) >>

\* EFFECTS and INTERACTIONS blocks of _transfer.
_transfer_body(self, from, to, amount) ==
    LET new_from_balance == safe_sub(self.balances[from], amount)
        new_to_balance == safe_add(self.balances[to], amount) IN
    << Write("balances", <<from>>, new_from_balance.val),
       Write("balances", <<to>>, new_to_balance.val),
       Emit(Transfer(from, to, amount)) >>

\* pub fn transfer: its own checks, then _transfer.
transfer_checks(self, caller, recipient, amount) ==
    << validate_amount(amount), validate_address(recipient) >>
    \o _transfer_checks(self, caller, recipient, amount)

transfer_body(self, caller, recipient, amount) ==
    _transfer_body(self, caller, recipient, amount)

\* pub fn approve
approve_checks(self, caller, spender, amount) ==
    << validate_address(spender),
       IF caller = spender THEN Err("SelfTransfer") ELSE Ok(0) >>

approve_body(self, caller, spender, amount) ==
    << Write("allowances", <<caller, spender>>, amount),
       Emit(Approval(caller, spender, amount)) >>

\* pub fn transfer_from: its own checks and those of _transfer come before the
\* first write.
transfer_from_checks(self, caller, owner, recipient, amount) ==
    LET current_allowance == self.allowances[<<owner, caller>>] IN
    << validate_amount(amount),
       validate_address(owner),
       validate_address(recipient),
       validate_sufficient_allowance(current_allowance, amount) >>
    \o _transfer_checks(self, owner, recipient, amount)

\* pub fn transfer_from after its checks: the whole of _transfer (its writes
\* and its emit_event), then safe_sub and the allowance write.
transfer_from_body(self, caller, owner, recipient, amount) ==
    LET current_allowance == self.allowances[<<owner, caller>>]
        new_allowance == safe_sub(current_allowance, amount) IN
    _transfer_body(self, owner, recipient, amount)
    \o << Check(new_allowance),
          Write("allowances", <<owner, caller>>, new_allowance.val) >>

\* CHECKS block of stake
stake_checks(self, caller, amount) ==
    << validate_amount(amount),
       validate_state_consistency(self),
       safe_add(self.balances[caller], amount),
       safe_add(self.total_staked, amount),
       safe_add(self.contract_cspr_balance, amount) >>

\* EFFECTS block of stake, the consistency check after it, INTERACTIONS block.
stake_body(self, caller, amount) ==
    LET new_balance == safe_add(self.balances[caller], amount)
        new_total_supply == safe_add(self.total_staked, amount)
        new_contract_balance == safe_add(self.contract_cspr_balance, amount) IN
    << Write("balances", <<caller>>, new_balance.val),
       Write("total_staked", <<>>, new_total_supply.val),
       Write("contract_cspr_balance", <<>>, new_contract_balance.val),
       CheckConsistency,
       Emit(StakeEvent(caller, amount, amount, block_time)),
       Emit(Transfer(self_address, caller, amount)) >>

\* CHECKS block of unstake
unstake_checks(self, caller, amount) ==
    LET current_balance == self.balances[caller] IN
    << validate_amount(amount),
       validate_state_consistency(self),
       validate_sufficient_balance(current_balance, amount),
       safe_sub(current_balance, amount),
       safe_sub(self.total_staked, amount),
       safe_sub(self.contract_cspr_balance, amount) >>

\* EFFECTS block of unstake, the consistency check after it, INTERACTIONS block.
unstake_body(self, caller, amount) ==
    LET new_balance == safe_sub(self.balances[caller], amount)
        new_total_supply == safe_sub(self.total_staked, amount)
        new_contract_balance == safe_sub(self.contract_cspr_balance, amount) IN
    << Write("balances", <<caller>>, new_balance.val),
       Write("total_staked", <<>>, new_total_supply.val),
       Write("contract_cspr_balance", <<>>, new_contract_balance.val),
       CheckConsistency,
       Emit(UnstakeEvent(caller, amount, amount, block_time)),
       Emit(Transfer(caller, self_address, amount)) >>

\* Mapping::set / Var::set
apply_write(self, w) ==
    CASE w.var = "balances" -> [self EXCEPT !.balances[w.key[1]] = w.val]
      [] w.var = "allowances" -> [self EXCEPT !.allowances[w.key] = w.val]
      [] w.var = "total_staked" -> [self EXCEPT !.total_staked = w.val]
      [] w.var = "contract_cspr_balance" -> [self EXCEPT !.contract_cspr_balance = w.val]

\* The `?` operator over the checks that come before the first write: "Ok", or
\* the error of the first check that fails.
RECURSIVE FirstError(_)
FirstError(checks) ==
    IF checks = <<>> THEN "Ok"
    ELSE IF ~Head(checks).ok THEN Head(checks).err
    ELSE FirstError(Tail(checks))

\* Faulty variant: a call or a read may start while another call is executing.
exclusive_not_enforced(f) == TRUE

\* One call executes at a time: a new call, or a read, starts only when no
\* call is executing.
exclusive(f) == f.todo = <<>>

\* The frame of a call that has passed its leading checks.
Running(op, caller, owner, to, amount, self, rest) ==
    [op |-> op, caller |-> caller, owner |-> owner, to |-> to, amount |-> amount,
     pre |-> self, todo |-> rest, done |-> <<"check">>, emitted |-> <<>>]

TransferBegin ==
    \E caller \in Address, recipient \in Address, amount \in StepAmounts :
        LET err == FirstError(transfer_checks(contract, caller, recipient, amount)) IN
        /\ exclusive(frame)
        /\ contract' = contract
        /\ ret' = [op |-> "transfer", res |-> IF err = "Ok" THEN "Running" ELSE err]
        /\ log' = log
        /\ frame' = IF err = "Ok"
                    THEN Running("transfer", caller, caller, recipient, amount,
                                 contract,
                                 transfer_body(contract, caller, recipient, amount) \o <<Return>>)
                    ELSE Idle

ApproveBegin ==
    \E caller \in Address, spender \in Address, amount \in StepAmounts :
        LET err == FirstError(approve_checks(contract, caller, spender, amount)) IN
        /\ exclusive(frame)
        /\ caller = spender \/ <<caller, spender>> \in LargeApprovePairs
        /\ contract' = contract
        /\ ret' = [op |-> "approve", res |-> IF err = "Ok" THEN "Running" ELSE err]
        /\ log' = log
        /\ frame' = IF err = "Ok"
                    THEN Running("approve", caller, caller, spender, amount,
                                 contract,
                                 approve_body(contract, caller, spender, amount) \o <<Return>>)
                    ELSE Idle

TransferFromBegin ==
    \E caller \in Address, owner \in Address, recipient \in Address,
       amount \in StepAmounts :
        LET err == FirstError(transfer_from_checks(contract, caller, owner, recipient, amount)) IN
        /\ exclusive(frame)
        /\ contract' = contract
        /\ ret' = [op |-> "transfer_from",
                   res |-> IF err = "Ok" THEN "Running" ELSE err]
        /\ log' = log
        /\ frame' = IF err = "Ok"
                    THEN Running("transfer_from", caller, owner, recipient, amount,
                                 contract,
                                 transfer_from_body(contract, caller, owner, recipient, amount) \o <<Return>>)
                    ELSE Idle

StakeBegin ==
    \E caller \in Address, amount \in StepAmounts :
        LET err == FirstError(stake_checks(contract, caller, amount)) IN
        /\ exclusive(frame)
        /\ contract' = contract
        /\ ret' = [op |-> "stake", res |-> IF err = "Ok" THEN "Running" ELSE err]
        /\ log' = log
        /\ frame' = IF err = "Ok"
                    THEN Running("stake", caller, caller, caller, amount,
                                 contract,
                                 stake_body(contract, caller, amount) \o <<Return>>)
                    ELSE Idle

UnstakeBegin ==
    \E caller \in Address, amount \in StepAmounts :
        LET err == FirstError(unstake_checks(contract, caller, amount)) IN
        /\ exclusive(frame)
        /\ contract' = contract
        /\ ret' = [op |-> "unstake", res |-> IF err = "Ok" THEN "Running" ELSE err]
        /\ log' = log
        /\ frame' = IF err = "Ok"
                    THEN Running("unstake", caller, caller, caller, amount,
                                 contract,
                                 unstake_body(contract, caller, amount) \o <<Return>>)
                    ELSE Idle

\* The result of the statement the executing call is at: "Ok", or the error
\* its `?` returns.
StatementResult(self, s) ==
    IF s.kind = "check" THEN s.err
    ELSE IF s.kind = "check_consistency"
    THEN (IF validate_state_consistency(self).ok THEN "Ok"
          ELSE validate_state_consistency(self).err)
    ELSE "Ok"

\* The executing call runs its next statement.  A failing check returns its
\* error at once and what was written stays written; the last statement
\* returns Ok(()).
Step ==
    /\ frame.todo # <<>>
    /\ LET s == Head(frame.todo)
           r == StatementResult(contract, s) IN
       /\ contract' = IF s.kind = "write" THEN apply_write(contract, s) ELSE contract
       /\ ret' = IF r # "Ok" THEN [op |-> frame.op, res |-> r]
                 ELSE IF s.kind = "return" THEN [op |-> frame.op, res |-> "Ok"]
                 ELSE ret
       /\ log' = log
       /\ frame' = IF r # "Ok" \/ s.kind = "return" THEN Idle
                   ELSE [frame EXCEPT !.todo = Tail(@),
                                      !.done = Append(@, s.kind),
                                      !.emitted = IF s.kind = "emit"
                                                  THEN Append(@, s.event) ELSE @]

\* The read-only entry points (&self).
ReadOnlyOps ==
    {"name", "symbol", "decimals", "total_supply", "balance_of", "allowance",
     "contract_cspr_balance", "validate_supply_consistency"}

\* Faulty variant: the read takes the value out of storage and leaves the
\* default behind.
after_read_takes(self) == [self EXCEPT !.total_staked = 0]

\* The struct after a call of a &self entry point: get, get_or_default and
\* unwrap_or_default read storage and write nothing.
after_read(self) == self

ReadCall ==
    \E op \in ReadOnlyOps :
        /\ exclusive(frame)
        /\ contract' = after_read(contract)
        /\ ret' = [op |-> op, res |-> "Ok"]
        /\ log' = log
        /\ frame' = frame

NextSteps ==
    \/ TransferBegin
    \/ ApproveBegin
    \/ TransferFromBegin
    \/ StakeBegin
    \/ UnstakeBegin
    \/ Step
    \/ ReadCall

\* The contract with every call followed statement by statement and reads
\* between the calls.
SpecSteps == Init /\ [][NextSteps]_vars

TypeOK ==
    /\ contract.balances \in [Address -> 0 .. U256_MAX]
    /\ contract.allowances \in [Address \X Address -> 0 .. U256_MAX]
    /\ contract.total_staked \in 0 .. U256_MAX
    /\ contract.contract_cspr_balance \in 0 .. U256_MAX
    /\ ret.res \in Error \cup {"Ok"}

(* ------------------------------ properties ----------------------------- *)
RECURSIVE SumOver(_, _)
SumOver(f, S) ==
    IF S = {} THEN 0
    ELSE LET a == CHOOSE x \in S : TRUE IN f[a] + SumOver(f, S \ {a})

\* Sum of balance_of over all accounts.
SumBalances(self) == SumOver(self.balances, Address)

\* Every account's balance is the same in s and t.
SameBalances(s, t) == t.balances = s.balances

\* Every allowance entry is the same in s and t.
SameAllowances(s, t) == t.allowances = s.allowances

SameAggregates(s, t) ==
    /\ total_supply(t) = total_supply(s)
    /\ contract_cspr_balance(t) = contract_cspr_balance(s)

\* Amounts that pass validate_amount.
ValidAmounts == 1 .. MAX_AMOUNT

\* C1: in every reachable state totalSupply() equals custodyBalance().
C1_Backing == total_supply(contract) = contract_cspr_balance(contract)

\* A withdrawal has just succeeded and units are still issued.
C1_Witness ==
    /\ ret = [op |-> "unstake", res |-> "Ok"]
    /\ total_supply(contract) > 0

\* C2: in every reachable state the balances sum to totalSupply(), and a
\* successful transfer or transferFrom leaves the sum of the balances as it was.
C2_Conservation ==
    /\ SumBalances(contract) = total_supply(contract)
    /\ \A caller \in Address, to \in Address, amount \in Amounts :
          LET out == transfer(contract, caller, to, amount) IN
          out.res = "Ok" => SumBalances(out.self) = SumBalances(contract)
    /\ \A caller \in Address, owner \in Address, to \in Address, amount \in Amounts :
          LET out == transfer_from(contract, caller, owner, to, amount) IN
          out.res = "Ok" => SumBalances(out.self) = SumBalances(contract)

\* A delegated transfer has just succeeded and two accounts hold units.
C2_Witness ==
    /\ ret = [op |-> "transfer_from", res |-> "Ok"]
    /\ Cardinality({a \in Address : balance_of(contract, a) > 0}) >= 2

\* C3: a transfer, transferFrom, deposit or withdraw that returns an error
\* leaves every balance, every allowance and both aggregates as they were.
C3_FailureAtomicity ==
    /\ \A caller \in Address, to \in Address, amount \in Amounts :
          LET out == transfer(contract, caller, to, amount) IN
          out.res # "Ok" => out.self = contract
    /\ \A caller \in Address, owner \in Address, to \in Address, amount \in Amounts :
          LET out == transfer_from(contract, caller, owner, to, amount) IN
          out.res # "Ok" => out.self = contract
    /\ \A caller \in Address, amount \in Amounts :
          LET out == stake(contract, caller, amount) IN
          out.res # "Ok" => out.self = contract
    /\ \A caller \in Address, amount \in Amounts :
          LET out == unstake(contract, caller, amount) IN
          out.res # "Ok" => out.self = contract

\* A delegated transfer has just failed on the owner's balance while the
\* spender's allowance is still there.
C3_Witness ==
    /\ ret = [op |-> "transfer_from", res |-> "InsufficientBalance"]
    /\ \E p \in ApprovePairs : contract.allowances[p] > 0
    /\ total_supply(contract) > 0

\* C4 as stated: from every reachable state, for every valid amount,
\* deposit(caller, amount) followed at once by withdraw(caller, amount) leaves
\* balanceOf(caller), totalSupply() and custodyBalance() as before the deposit.
C4_RoundTrip_AsStated ==
    \A caller \in Address, amount \in ValidAmounts :
        LET d == stake(contract, caller, amount)
            w == unstake(d.self, caller, amount) IN
        /\ balance_of(w.self, caller) = balance_of(contract, caller)
        /\ SameAggregates(contract, w.self)

\* C4 amended: whenever deposit(caller, amount) with a valid amount succeeds,
\* withdraw(caller, amount) right after it succeeds too and leaves
\* balanceOf(caller), totalSupply() and custodyBalance() as before the deposit.
C4_RoundTrip ==
    \A caller \in Address, amount \in ValidAmounts :
        LET d == stake(contract, caller, amount)
            w == unstake(d.self, caller, amount) IN
        d.res = "Ok" =>
            /\ w.res = "Ok"
            /\ balance_of(w.self, caller) = balance_of(contract, caller)
            /\ SameAggregates(contract, w.self)

\* A withdrawal has just succeeded and brought the ledger back to the values
\* it had before the first deposit.
C4_Witness ==
    /\ ret = [op |-> "unstake", res |-> "Ok"]
    /\ \A a \in Address : balance_of(contract, a) = 0
    /\ total_supply(contract) = 0
    /\ contract_cspr_balance(contract) = 0

\* C5: a successful deposit raises balanceOf(caller), Total Issued and the
\* Custody Pool by exactly amount, and changes no other balance and no allowance.
C5_Deposit ==
    \A caller \in Address, amount \in Amounts :
        LET out == stake(contract, caller, amount) IN
        out.res = "Ok" =>
            /\ out.self.balances = [contract.balances EXCEPT ![caller] = @ + amount]
            /\ total_supply(out.self) = total_supply(contract) + amount
            /\ contract_cspr_balance(out.self) = contract_cspr_balance(contract) + amount
            /\ SameAllowances(contract, out.self)

\* A deposit has just succeeded while another account holds units and an
\* allowance is outstanding.
C5_Witness ==
    /\ ret = [op |-> "stake", res |-> "Ok"]
    /\ Cardinality({a \in Address : balance_of(contract, a) > 0}) >= 2
    /\ \E p \in ApprovePairs : contract.allowances[p] > 0

\* C6: a successful withdraw lowers balanceOf(caller), Total Issued and the
\* Custody Pool by exactly amount, and changes no other balance and no allowance.
C6_Withdraw ==
    \A caller \in Address, amount \in Amounts :
        LET out == unstake(contract, caller, amount) IN
        out.res = "Ok" =>
            /\ out.self.balances = [contract.balances EXCEPT ![caller] = @ - amount]
            /\ total_supply(out.self) = total_supply(contract) - amount
            /\ contract_cspr_balance(out.self) = contract_cspr_balance(contract) - amount
            /\ SameAllowances(contract, out.self)

\* A withdrawal has just succeeded while two accounts still hold units and an
\* allowance is outstanding.
C6_Witness ==
    /\ ret = [op |-> "unstake", res |-> "Ok"]
    /\ Cardinality({a \in Address : balance_of(contract, a) > 0}) >= 2
    /\ \E p \in ApprovePairs : contract.allowances[p] > 0

\* C7: a successful transfer lowers balanceOf(caller) and raises balanceOf(to)
\* by exactly amount, together, and changes no other balance and no allowance.
C7_Transfer ==
    \A caller \in Address, to \in Address, amount \in Amounts :
        LET out == transfer(contract, caller, to, amount) IN
        out.res = "Ok" =>
            /\ caller # to
            /\ out.self.balances =
                  [contract.balances EXCEPT ![caller] = @ - amount, ![to] = @ + amount]
            /\ SameAllowances(contract, out.self)

\* A transfer has just succeeded, all three accounts hold units and an
\* allowance is outstanding.
C7_Witness ==
    /\ ret = [op |-> "transfer", res |-> "Ok"]
    /\ \A a \in Address : balance_of(contract, a) > 0
    /\ \E p \in ApprovePairs : contract.allowances[p] > 0

\* C8: a successful transferFrom lowers balanceOf(owner) and raises
\* balanceOf(to) by exactly amount; the caller's balance changes only if the
\* caller is `to`, and no other balance changes.
C8_TransferFrom ==
    \A caller \in Address, owner \in Address, to \in Address, amount \in Amounts :
        LET out == transfer_from(contract, caller, owner, to, amount) IN
        out.res = "Ok" =>
            /\ owner # to
            /\ out.self.balances =
                  [contract.balances EXCEPT ![owner] = @ - amount, ![to] = @ + amount]
            /\ caller # to => balance_of(out.self, caller) = balance_of(contract, caller)

\* A delegated transfer has just succeeded, spender, owner and recipient all
\* hold units, and the spender's allowance is not used up.
C8_Witness ==
    /\ ret = [op |-> "transfer_from", res |-> "Ok"]
    /\ \A a \in Address : balance_of(contract, a) > 0
    /\ \E p \in ApprovePairs : contract.allowances[p] > 0

\* C9: after a successful transferFrom, allowance(owner, caller) is exactly
\* amount less than before and every other allowance entry is unchanged.
C9_AllowanceConsumption ==
    \A caller \in Address, owner \in Address, to \in Address, amount \in Amounts :
        LET out == transfer_from(contract, caller, owner, to, amount) IN
        out.res = "Ok" =>
            out.self.allowances =
                [contract.allowances EXCEPT ![<<owner, caller>>] = @ - amount]

\* A delegated transfer has just succeeded and both approved pairs hold an
\* allowance.
C9_Witness ==
    /\ ret = [op |-> "transfer_from", res |-> "Ok"]
    /\ \A p \in ApprovePairs : contract.allowances[p] > 0

\* C10: approve(caller, spender, amount) with caller # spender succeeds for
\* every amount, zero included, and whatever the caller's balance; it sets
\* allowance(caller, spender) to exactly amount whatever the previous value,
\* and changes no balance, neither aggregate and no other allowance entry.
C10_Approve ==
    \A caller \in Address, spender \in Address, amount \in 0 .. U256_MAX :
        LET out == approve(contract, caller, spender, amount) IN
        caller # spender =>
            /\ out.res = "Ok"
            /\ out.self.allowances =
                  [contract.allowances EXCEPT ![<<caller, spender>>] = amount]
            /\ SameBalances(contract, out.self)
            /\ SameAggregates(contract, out.self)

\* An approval has just succeeded while units are issued: an owner without
\* units has an allowance outstanding and the other approved pair has none.
C10_Witness ==
    /\ ret = [op |-> "approve", res |-> "Ok"]
    /\ total_supply(contract) > 0
    /\ \E p \in ApprovePairs :
          /\ contract.allowances[p] > 0
          /\ balance_of(contract, p[1]) = 0
    /\ \E p \in ApprovePairs : contract.allowances[p] = 0

\* C11 as stated: for every account A with a positive balance,
\* withdraw(A, balanceOf(A)) succeeds, leaves balanceOf(A) = 0 and lowers
\* totalSupply() and custodyBalance() by that amount.
C11_WithdrawAll_AsStated ==
    \A a \in Address :
        LET amount == balance_of(contract, a)
            out == unstake(contract, a, amount) IN
        amount > 0 =>
            /\ out.res = "Ok"
            /\ balance_of(out.self, a) = 0
            /\ total_supply(out.self) = total_supply(contract) - amount
            /\ contract_cspr_balance(out.self) = contract_cspr_balance(contract) - amount

\* C11 amended: for every account A with a positive balance that does not
\* exceed the amount ceiling, withdraw(A, balanceOf(A)) succeeds, leaves
\* balanceOf(A) = 0 and lowers totalSupply() and custodyBalance() by that amount.
C11_WithdrawAll ==
    \A a \in Address :
        LET amount == balance_of(contract, a)
            out == unstake(contract, a, amount) IN
        amount \in ValidAmounts =>
            /\ out.res = "Ok"
            /\ balance_of(out.self, a) = 0
            /\ total_supply(out.self) = total_supply(contract) - amount
            /\ contract_cspr_balance(out.self) = contract_cspr_balance(contract) - amount

\* A withdrawal has just succeeded and emptied an account, while another
\* account holds exactly the ceiling.
C11_Witness ==
    /\ ret = [op |-> "unstake", res |-> "Ok"]
    /\ \E a \in Address : balance_of(contract, a) = 0
    /\ \E a \in Address : balance_of(contract, a) = MAX_AMOUNT
    /\ total_supply(contract) = MAX_AMOUNT

\* C12: deposit, withdraw, transfer and transferFrom with amount = 0 fail with
\* InvalidAmount whatever the balances, allowances and addresses (transfer to
\* self and owner = to included), and leave the state unchanged.
C12_ZeroAmount ==
    /\ \A caller \in Address :
          /\ stake(contract, caller, 0) = Outcome(contract, "InvalidAmount", <<>>)
          /\ unstake(contract, caller, 0) = Outcome(contract, "InvalidAmount", <<>>)
    /\ \A caller \in Address, to \in Address :
          transfer(contract, caller, to, 0) = Outcome(contract, "InvalidAmount", <<>>)
    /\ \A caller \in Address, owner \in Address, to \in Address :
          transfer_from(contract, caller, owner, to, 0) =
              Outcome(contract, "InvalidAmount", <<>>)

\* A call with amount 0 has just been refused while every account holds units
\* and an allowance is outstanding.
C12_Witness ==
    /\ ret.res = "InvalidAmount"
    /\ \A a \in Address : balance_of(contract, a) > 0
    /\ \E p \in LargeApprovePairs : contract.allowances[p] > 0

\* Amounts above validate_amount's ceiling that the quantity type can hold.
AboveCeiling == (MAX_AMOUNT + 1) .. U256_MAX

\* C13: deposit, withdraw, transfer and transferFrom with an amount strictly
\* above the ceiling fail with ExceedsMaximum before any balance or allowance
\* check; an amount equal to the ceiling passes amount validation; and the
\* ceiling is strictly below the type's maximum, so that the sum of two amounts
\* that pass validation does not overflow.
C13_Ceiling ==
    /\ \A caller \in Address, amount \in AboveCeiling :
          /\ stake(contract, caller, amount) = Outcome(contract, "ExceedsMaximum", <<>>)
          /\ unstake(contract, caller, amount) = Outcome(contract, "ExceedsMaximum", <<>>)
    /\ \A caller \in Address, to \in Address, amount \in AboveCeiling :
          transfer(contract, caller, to, amount) =
              Outcome(contract, "ExceedsMaximum", <<>>)
    /\ \A caller \in Address, owner \in Address, to \in Address, amount \in AboveCeiling :
          transfer_from(contract, caller, owner, to, amount) =
              Outcome(contract, "ExceedsMaximum", <<>>)
    /\ validate_amount(MAX_AMOUNT).ok
    /\ \A caller \in Address :
          /\ stake(contract, caller, MAX_AMOUNT).res \notin {"ExceedsMaximum", "InvalidAmount"}
          /\ unstake(contract, caller, MAX_AMOUNT).res \notin {"ExceedsMaximum", "InvalidAmount"}
    /\ \A caller \in Address, to \in Address :
          transfer(contract, caller, to, MAX_AMOUNT).res
              \notin {"ExceedsMaximum", "InvalidAmount"}
    /\ MAX_AMOUNT < U256_MAX
    /\ \A a \in ValidAmounts, b \in ValidAmounts : safe_add(a, b) = Ok(a + b)

\* A call has just been refused for an amount above the ceiling while an owner
\* holds more than the ceiling and has approved more than the ceiling: neither
\* the balance nor the allowance would have stopped that amount.
C13_Witness ==
    /\ ret.res = "ExceedsMaximum"
    /\ \E p \in LargeApprovePairs :
          /\ contract.allowances[p] > MAX_AMOUNT
          /\ balance_of(contract, p[1]) > MAX_AMOUNT

\* C14: transfer(caller, to, amount) with to = caller and a valid amount fails
\* with SelfTransfer whatever the caller's balance, also when it is below
\* amount, and leaves the state unchanged.
C14_SelfTransfer ==
    \A caller \in Address, amount \in ValidAmounts :
        transfer(contract, caller, caller, amount) =
            Outcome(contract, "SelfTransfer", <<>>)

\* A transfer has just been refused as a self-transfer, while one account
\* holds nothing and another holds units.
C14_Witness ==
    /\ ret = [op |-> "transfer", res |-> "SelfTransfer"]
    /\ \E a \in Address : balance_of(contract, a) = 0
    /\ \E a \in Address : balance_of(contract, a) >= MAX_AMOUNT

\* C15: transfer(caller, to, amount) with to # caller and a valid amount fails
\* with InsufficientBalance and changes no balance when balanceOf(caller) <
\* amount, and does not fail with InsufficientBalance when balanceOf(caller) >=
\* amount.
C15_TransferBalance ==
    \A caller \in Address, to \in Address, amount \in ValidAmounts :
        LET out == transfer(contract, caller, to, amount) IN
        to # caller =>
            IF balance_of(contract, caller) < amount
            THEN /\ out.res = "InsufficientBalance"
                 /\ SameBalances(contract, out.self)
            ELSE out.res # "InsufficientBalance"

\* A transfer has just been refused for lack of balance while some account
\* holds units, but fewer than the ceiling.
C15_Witness ==
    /\ ret = [op |-> "transfer", res |-> "InsufficientBalance"]
    /\ \E a \in Address : balance_of(contract, a) \in 1 .. (MAX_AMOUNT - 1)

\* C16: withdraw(caller, amount) with a valid amount and balanceOf(caller) <
\* amount, also for a caller that never deposited, fails with
\* InsufficientBalance and leaves the balance, Total Issued and the Custody
\* Pool unchanged.
C16_WithdrawBalance ==
    \A caller \in Address, amount \in ValidAmounts :
        balance_of(contract, caller) < amount =>
            unstake(contract, caller, amount) =
                Outcome(contract, "InsufficientBalance", <<>>)

\* A withdrawal has just been refused for lack of balance while units are
\* issued: one account holds nothing, another holds fewer than the ceiling.
C16_Witness ==
    /\ ret = [op |-> "unstake", res |-> "InsufficientBalance"]
    /\ \E a \in Address : balance_of(contract, a) = 0
    /\ \E a \in Address : balance_of(contract, a) \in 1 .. (MAX_AMOUNT - 1)

\* C17: transferFrom(caller, owner, to, amount) with a valid amount and
\* allowance(owner, caller) < amount fails with InsufficientAllowance whatever
\* the owner's balance and whether or not owner = to, and leaves all balances
\* and allowances unchanged.
C17_TransferFromAllowance ==
    \A caller \in Address, owner \in Address, to \in Address, amount \in ValidAmounts :
        allowance(contract, owner, caller) < amount =>
            transfer_from(contract, caller, owner, to, amount) =
                Outcome(contract, "InsufficientAllowance", <<>>)

\* A delegated transfer has just been refused for lack of allowance, while the
\* spender has some allowance left, below the ceiling, and the owner holds at
\* least the ceiling.
C17_Witness ==
    /\ ret = [op |-> "transfer_from", res |-> "InsufficientAllowance"]
    /\ \E p \in LargeApprovePairs :
          /\ contract.allowances[p] \in 1 .. (MAX_AMOUNT - 1)
          /\ balance_of(contract, p[1]) >= MAX_AMOUNT

\* C18 as stated: transferFrom(caller, owner, to, amount) with
\* allowance(owner, caller) >= amount, balanceOf(owner) < amount and owner # to
\* fails with InsufficientBalance and changes neither the balances nor
\* allowance(owner, caller).
C18_AllowanceKept_AsStated ==
    \A caller \in Address, owner \in Address, to \in Address, amount \in 0 .. U256_MAX :
        LET out == transfer_from(contract, caller, owner, to, amount) IN
        (/\ owner # to
         /\ allowance(contract, owner, caller) >= amount
         /\ balance_of(contract, owner) < amount) =>
            /\ out.res = "InsufficientBalance"
            /\ SameBalances(contract, out.self)
            /\ allowance(out.self, owner, caller) = allowance(contract, owner, caller)

\* C18 amended: transferFrom(caller, owner, to, amount) with a valid amount,
\* allowance(owner, caller) >= amount, balanceOf(owner) < amount and owner # to
\* fails with InsufficientBalance and changes neither the balances nor
\* allowance(owner, caller).
C18_AllowanceKept ==
    \A caller \in Address, owner \in Address, to \in Address, amount \in ValidAmounts :
        LET out == transfer_from(contract, caller, owner, to, amount) IN
        (/\ owner # to
         /\ allowance(contract, owner, caller) >= amount
         /\ balance_of(contract, owner) < amount) =>
            /\ out.res = "InsufficientBalance"
            /\ SameBalances(contract, out.self)
            /\ allowance(out.self, owner, caller) = allowance(contract, owner, caller)

\* A delegated transfer has just been refused for lack of balance: the spender
\* still has an allowance within the ceiling and the owner holds less than it.
C18_Witness ==
    /\ ret = [op |-> "transfer_from", res |-> "InsufficientBalance"]
    /\ \E p \in LargeApprovePairs :
          /\ contract.allowances[p] \in ValidAmounts
          /\ balance_of(contract, p[1]) < contract.allowances[p]

\* C19: approve(caller, spender, amount) with spender = caller fails with
\* SelfTransfer for every amount, 0 included, and leaves every allowance entry
\* unchanged.
C19_SelfApprove ==
    \A caller \in Address, amount \in 0 .. U256_MAX :
        LET out == approve(contract, caller, caller, amount) IN
        /\ out.res = "SelfTransfer"
        /\ SameAllowances(contract, out.self)

\* A self-approval has just been refused while another allowance is
\* outstanding.
C19_Witness ==
    /\ ret = [op |-> "approve", res |-> "SelfTransfer"]
    /\ \E p \in LargeApprovePairs : contract.allowances[p] > 0

\* C20: Total Issued and the Custody Pool change only through successful
\* deposit and withdraw calls, and then both by the same amount: transfer,
\* approve and transferFrom, successful or failed, and a failed deposit or
\* withdraw leave both aggregates unchanged.
C20_AggregatesFrame ==
    /\ \A caller \in Address, to \in Address, amount \in Amounts :
          SameAggregates(contract, transfer(contract, caller, to, amount).self)
    /\ \A caller \in Address, spender \in Address, amount \in 0 .. U256_MAX :
          SameAggregates(contract, approve(contract, caller, spender, amount).self)
    /\ \A caller \in Address, owner \in Address, to \in Address, amount \in Amounts :
          SameAggregates(contract, transfer_from(contract, caller, owner, to, amount).self)
    /\ \A caller \in Address, amount \in Amounts :
          LET d == stake(contract, caller, amount)
              w == unstake(contract, caller, amount) IN
          /\ d.res # "Ok" => SameAggregates(contract, d.self)
          /\ w.res # "Ok" => SameAggregates(contract, w.self)
          /\ total_supply(d.self) - total_supply(contract) =
                contract_cspr_balance(d.self) - contract_cspr_balance(contract)
          /\ total_supply(w.self) - total_supply(contract) =
                contract_cspr_balance(w.self) - contract_cspr_balance(contract)

\* A delegated transfer has just succeeded while more than the ceiling is
\* issued and held in custody.
C20_Witness ==
    /\ ret = [op |-> "transfer_from", res |-> "Ok"]
    /\ total_supply(contract) > MAX_AMOUNT
    /\ contract_cspr_balance(contract) > MAX_AMOUNT

Atomic(f) ==
    CASE f.op = "transfer" -> transfer(f.pre, f.caller, f.to, f.amount)
      [] f.op = "approve" -> approve(f.pre, f.caller, f.to, f.amount)
      [] f.op = "transfer_from" -> transfer_from(f.pre, f.caller, f.owner, f.to, f.amount)
      [] f.op = "stake" -> stake(f.pre, f.caller, f.amount)
      [] f.op = "unstake" -> unstake(f.pre, f.caller, f.amount)

\* C22: with calls and reads of different callers interleaved, a read sees
\* either none or all of the writes of a mutating call (never a deposit's new
\* balance without the new aggregates, nor a transferFrom's moved balances
\* without the decremented allowance); a call that has passed its checks runs
\* through all its statements, and what it leaves behind is what the call made
\* in one piece on the state it started from leaves: the interleaving is a
\* serial order of the calls.
C22_Serializable ==
    /\ (ret.op \in ReadOnlyOps /\ frame.todo # <<>>) =>
          contract \in {frame.pre, Atomic(frame).self}
    /\ frame.todo # <<>> =>
          /\ StatementResult(contract, Head(frame.todo)) = "Ok"
          /\ Head(frame.todo).kind = "return" =>
                /\ Atomic(frame).res = "Ok"
                /\ contract = Atomic(frame).self
                /\ frame.emitted = Atomic(frame).events

\* A delegated transfer has made all its writes and is about to return, after
\* calls of other callers: the owner still holds units and so does a third
\* account.
C22_Witness ==
    /\ frame.op = "transfer_from"
    /\ frame.todo = <<Return>>
    /\ contract # frame.pre
    /\ \A a \in Address : balance_of(contract, a) > 0

\* C23 as stated: no balance, no allowance entry and neither aggregate exceeds
\* the chosen maximum safe bound (validate_amount's ceiling), and an operation
\* that would push a quantity past it fails with an error.
C23_Bounded_AsStated ==
    /\ \A a \in Address : balance_of(contract, a) <= MAX_AMOUNT
    /\ \A a \in Address, b \in Address : allowance(contract, a, b) <= MAX_AMOUNT
    /\ total_supply(contract) <= MAX_AMOUNT
    /\ contract_cspr_balance(contract) <= MAX_AMOUNT

\* A successful call keeps every quantity within the type.
WithinType(self) ==
    /\ \A a \in Address : balance_of(self, a) \in 0 .. U256_MAX
    /\ \A a \in Address, b \in Address : allowance(self, a, b) \in 0 .. U256_MAX
    /\ total_supply(self) \in 0 .. U256_MAX
    /\ contract_cspr_balance(self) \in 0 .. U256_MAX

\* C23 amended: no balance, no allowance entry and neither aggregate exceeds
\* the largest value of the quantity type; a deposit or a transfer that would
\* push a quantity past it fails with ArithmeticOverflow and changes nothing,
\* instead of saturating or wrapping around.
C23_Bounded ==
    /\ WithinType(contract)
    /\ \A caller \in Address, amount \in ValidAmounts :
          LET out == stake(contract, caller, amount) IN
          /\ WithinType(out.self)
          /\ (\/ balance_of(contract, caller) + amount > U256_MAX
              \/ total_supply(contract) + amount > U256_MAX
              \/ contract_cspr_balance(contract) + amount > U256_MAX) =>
                out = Outcome(contract, "ArithmeticOverflow", <<>>)
    /\ \A caller \in Address, to \in Address, amount \in ValidAmounts :
          LET out == transfer(contract, caller, to, amount) IN
          /\ WithinType(out.self)
          /\ (out.res = "Ok" \/ balance_of(contract, to) + amount > U256_MAX) =>
                balance_of(out.self, to) \in
                    {balance_of(contract, to), balance_of(contract, to) + amount}

\* A deposit has just been refused because Total Issued would not fit the
\* type, while an allowance above the ceiling is outstanding.
C23_Witness ==
    /\ ret = [op |-> "stake", res |-> "ArithmeticOverflow"]
    /\ total_supply(contract) + MAX_AMOUNT > U256_MAX
    /\ \E p \in LargeApprovePairs : contract.allowances[p] > MAX_AMOUNT

\* The caller error kinds the claim lists as ordinary.
OrdinaryErrors ==
    {"InvalidAmount", "ExceedsMaximum", "InsufficientBalance",
     "InsufficientAllowance", "SelfTransfer", "ArithmeticOverflow",
     "ArithmeticUnderflow", "InvalidAddress"}

C26_IssuanceEvents ==
    \A caller \in Address, amount \in Amounts :
        /\ stake(contract, caller, amount).res = "Ok" =>
              stake(contract, caller, amount).events =
                  <<[type |-> "StakeEvent", user |-> caller, cspr_amount |-> amount,
                     stcspr_minted |-> amount, timestamp |-> block_time],
                    [type |-> "Transfer", from |-> self_address, to |-> caller,
                     amount |-> amount]>>
        /\ unstake(contract, caller, amount).res = "Ok" =>
              unstake(contract, caller, amount).events =
                  <<[type |-> "UnstakeEvent", user |-> caller, stcspr_burned |-> amount,
                     cspr_returned |-> amount, timestamp |-> block_time],
                    [type |-> "Transfer", from |-> caller, to |-> self_address,
                     amount |-> amount]>>

\* A withdraw has just succeeded and both a deposit and a withdraw can succeed
\* from here.
C26_Witness ==
    /\ ret = [op |-> "unstake", res |-> "Ok"]
    /\ \E caller \in Address, amount \in ValidAmounts :
          /\ stake(contract, caller, amount).res = "Ok"
          /\ unstake(contract, caller, amount).res = "Ok"

\* C27: a successful transfer emits exactly one event, Transfer {from: caller,
\* to, amount}; a successful transfer_from emits exactly one event, Transfer
\* {from: owner, to, amount}, naming the owner and not the calling spender, and
\* no Approval; a successful approve emits exactly one Approval {owner:
\* caller, spender, amount}.
C27_TransferEvents ==
    \A caller \in Address, to \in Address, amount \in Amounts :
        /\ transfer(contract, caller, to, amount).res = "Ok" =>
              transfer(contract, caller, to, amount).events =
                  <<[type |-> "Transfer", from |-> caller, to |-> to,
                     amount |-> amount]>>
        /\ approve(contract, caller, to, amount).res = "Ok" =>
              approve(contract, caller, to, amount).events =
                  <<[type |-> "Approval", owner |-> caller, spender |-> to,
                     amount |-> amount]>>
        /\ \A owner \in Address :
              transfer_from(contract, caller, owner, to, amount).res = "Ok" =>
                  transfer_from(contract, caller, owner, to, amount).events =
                      <<[type |-> "Transfer", from |-> owner, to |-> to,
                         amount |-> amount]>>

\* A transfer_from by a spender other than the owner has just succeeded.
C27_Witness ==
    /\ ret = [op |-> "transfer_from", res |-> "Ok"]
    /\ \E caller \in Address, owner \in Address \ {"a3"}, amount \in ValidAmounts :
          /\ caller # owner
          /\ transfer_from(contract, caller, owner, "a3", amount).res = "Ok"
          /\ transfer(contract, owner, "a3", amount).res = "Ok"

\* C28: a mutating call that returns an error emits no event.
C28_NoEventOnError ==
    \A caller \in Address, to \in Address, amount \in Amounts :
        /\ transfer(contract, caller, to, amount).res # "Ok" =>
              transfer(contract, caller, to, amount).events = <<>>
        /\ approve(contract, caller, to, amount).res # "Ok" =>
              approve(contract, caller, to, amount).events = <<>>
        /\ stake(contract, caller, amount).res # "Ok" =>
              stake(contract, caller, amount).events = <<>>
        /\ unstake(contract, caller, amount).res # "Ok" =>
              unstake(contract, caller, amount).events = <<>>
        /\ \A owner \in Address :
              transfer_from(contract, caller, owner, to, amount).res # "Ok" =>
                  transfer_from(contract, caller, owner, to, amount).events = <<>>

\* A transfer_from has just been refused for want of allowance although the
\* owner holds the amount, and a further one would be refused the same way.
C28_Witness ==
    /\ ret = [op |-> "transfer_from", res |-> "InsufficientAllowance"]
    /\ \E caller \in Address, owner \in Address, to \in Address, amount \in ValidAmounts :
          /\ balance_of(contract, owner) >= amount
          /\ owner # to
          /\ transfer_from(contract, caller, owner, to, amount).res = "InsufficientAllowance"

\* C30: name(), symbol() and decimals() return "Staked CSPR", "stCSPR" and 9
\* in every reachable state, whatever calls succeeded or failed before.
C30_Metadata ==
    /\ name(contract) = "Staked CSPR"
    /\ symbol(contract) = "stCSPR"
    /\ decimals(contract) = 9

\* Successful and failed calls have happened: the ledger is not the initial
\* one and the latest call was refused.
C30_Witness ==
    /\ ret.res \notin {"Ok", "Running"}
    /\ ret.op # "init"
    /\ total_supply(contract) > 0
    /\ \E p \in LargeApprovePairs : contract.allowances[p] > 0

\* C29 as stated: within a call that has passed its checks the statements run
\* in the order checks, writes, events: no write of the call comes after one
\* of its events (for transfer_from: the allowance write), and a check that
\* runs after a write never fails.
C29_StepOrder ==
    /\ \A i \in 1 .. Len(frame.done), j \in 1 .. Len(frame.done) :
          (i < j /\ frame.done[i] = "emit") => frame.done[j] # "write"
    /\ (/\ frame.todo # <<>>
        /\ \E i \in 1 .. Len(frame.done) : frame.done[i] = "write"
        /\ Head(frame.todo).kind \in {"check", "check_consistency"}) =>
            StatementResult(contract, Head(frame.todo)) = "Ok"

\* C31: an allowance entry (owner, spender) is raised only by a successful
\* approve called by that owner for that spender; a successful transfer_from
\* called by the spender on the owner strictly lowers that entry and changes
\* no other; transfer, stake and unstake change no allowance, and a failed
\* call changes none either.
C31_AllowanceWriters ==
    \A caller \in Address, to \in Address, amount \in Amounts :
        /\ transfer(contract, caller, to, amount).self.allowances = contract.allowances
        /\ stake(contract, caller, amount).self.allowances = contract.allowances
        /\ unstake(contract, caller, amount).self.allowances = contract.allowances
        /\ LET out == approve(contract, caller, to, amount) IN
           \A p \in Address \X Address :
               out.self.allowances[p] # contract.allowances[p] =>
                   /\ out.res = "Ok"
                   /\ p = <<caller, to>>
        /\ \A owner \in Address :
              LET out == transfer_from(contract, caller, owner, to, amount) IN
              /\ out.res # "Ok" => out.self.allowances = contract.allowances
              /\ out.res = "Ok" =>
                    /\ out.self.allowances[<<owner, caller>>] <
                           contract.allowances[<<owner, caller>>]
                    /\ \A p \in (Address \X Address) \ {<<owner, caller>>} :
                           out.self.allowances[p] = contract.allowances[p]

\* A transfer_from has just succeeded and left part of the allowance, and the
\* spender can draw on it again.
C31_Witness ==
    /\ ret = [op |-> "transfer_from", res |-> "Ok"]
    /\ \E p \in LargeApprovePairs :
          /\ contract.allowances[p] > 0
          /\ \E to \in Address :
                transfer_from(contract, p[2], p[1], to, 1).res = "Ok"

\* C32: transfer_from with owner = recipient, a valid amount and a sufficient
\* allowance fails with SelfTransfer and changes nothing; the errors of
\* transfer_from come in the order InvalidAmount, ExceedsMaximum,
\* InsufficientAllowance, SelfTransfer, InsufficientBalance.
C32_TransferFromPrecedence ==
    \A caller \in Address, owner \in Address, to \in Address, amount \in Amounts :
        LET out == transfer_from(contract, caller, owner, to, amount) IN
        /\ (/\ owner = to
            /\ amount \in ValidAmounts
            /\ allowance(contract, owner, caller) >= amount) =>
                out = Outcome(contract, "SelfTransfer", <<>>)
        /\ out.res =
              IF amount = 0 THEN "InvalidAmount"
              ELSE IF amount > MAX_AMOUNT THEN "ExceedsMaximum"
              ELSE IF allowance(contract, owner, caller) < amount
              THEN "InsufficientAllowance"
              ELSE IF owner = to THEN "SelfTransfer"
              ELSE IF balance_of(contract, owner) < amount THEN "InsufficientBalance"
              ELSE "Ok"

\* A transfer_from naming the owner as recipient has just been refused with
\* SelfTransfer, and the spender's allowance exceeds the owner's balance, so
\* that the later errors of the order can be met from here too.
C32_Witness ==
    /\ ret = [op |-> "transfer_from", res |-> "SelfTransfer"]
    /\ \E p \in LargeApprovePairs :
          /\ contract.allowances[p] > balance_of(contract, p[1])
          /\ transfer_from(contract, p[2], p[1], p[1], 1).res = "SelfTransfer"
          /\ transfer_from(contract, p[2], p[1], p[2], contract.allowances[p]).res
                \in {"InsufficientBalance", "ExceedsMaximum"}

\* C33: safe_add(a, b) returns a + b exactly when the sum fits the unsigned
\* type and fails with ArithmeticOverflow otherwise; safe_sub(a, b) returns
\* a - b exactly when b <= a and fails with ArithmeticUnderflow otherwise;
\* neither returns a wrapped or saturated value.  Where the entry points use
\* them on the ledger, a failure leaves the struct as it was.
C33_ArithmeticGuard ==
    /\ \A a \in 0 .. U256_MAX, b \in 0 .. U256_MAX :
          /\ a + b <= U256_MAX =>
                safe_add(a, b).ok /\ safe_add(a, b).val = a + b
          /\ a + b > U256_MAX =>
                ~safe_add(a, b).ok /\ safe_add(a, b).err = "ArithmeticOverflow"
          /\ b <= a =>
                safe_sub(a, b).ok /\ safe_sub(a, b).val = a - b
          /\ b > a =>
                ~safe_sub(a, b).ok /\ safe_sub(a, b).err = "ArithmeticUnderflow"
    /\ \A caller \in Address, amount \in ValidAmounts :
          /\ ~safe_add(balance_of(contract, caller), amount).ok =>
                stake(contract, caller, amount) =
                    Outcome(contract, "ArithmeticOverflow", <<>>)
          /\ safe_sub(balance_of(contract, caller), amount).ok =>
                balance_of(unstake(contract, caller, amount).self, caller) =
                    balance_of(contract, caller) - amount

\* A deposit has just been refused by safe_add on a balance that is the
\* largest value of the type, and a withdraw from that balance passes safe_sub.
C33_Witness ==
    /\ ret = [op |-> "stake", res |-> "ArithmeticOverflow"]
    /\ \E a \in Address :
          /\ balance_of(contract, a) = U256_MAX
          /\ unstake(contract, a, MAX_AMOUNT).res = "Ok"

\* C34: no single call moves more than the amount ceiling (an amount above it
\* is refused with ExceedsMaximum by transfer, transfer_from, stake and
\* unstake), yet a balance above the ceiling is reached by accumulation; in
\* a state where an account holds more than the ceiling, a withdraw or a
\* transfer of its whole balance fails with ExceedsMaximum and changes nothing.
C34_AboveCeiling ==
    /\ \A caller \in Address, owner \in Address, to \in Address,
          amount \in AboveCeiling :
          /\ transfer(contract, caller, to, amount) =
                Outcome(contract, "ExceedsMaximum", <<>>)
          /\ transfer_from(contract, caller, owner, to, amount) =
                Outcome(contract, "ExceedsMaximum", <<>>)
          /\ stake(contract, caller, amount) =
                Outcome(contract, "ExceedsMaximum", <<>>)
          /\ unstake(contract, caller, amount) =
                Outcome(contract, "ExceedsMaximum", <<>>)
    /\ \A a \in Address, to \in Address :
          balance_of(contract, a) > MAX_AMOUNT =>
              /\ total_supply(contract) > MAX_AMOUNT
              /\ unstake(contract, a, balance_of(contract, a)) =
                    Outcome(contract, "ExceedsMaximum", <<>>)
              /\ transfer(contract, a, to, balance_of(contract, a)) =
                    Outcome(contract, "ExceedsMaximum", <<>>)

\* One account has come to hold more than the ceiling through an incoming
\* transfer, after deposits that each passed validate_amount.
C34_Witness ==
    /\ ret = [op |-> "transfer", res |-> "Ok"]
    /\ \E a \in Address :
          /\ balance_of(contract, a) > MAX_AMOUNT
          /\ balance_of(contract, a) < total_supply(contract)

\* C35: in every reachable state allowance(a, a) = 0 for every account a, so
\* a transfer_from whose caller is the owner fails with InsufficientAllowance
\* for every valid amount and changes nothing.
C35_NoSelfAllowance ==
    \A a \in Address :
        /\ allowance(contract, a, a) = 0
        /\ \A to \in Address, amount \in ValidAmounts :
              transfer_from(contract, a, a, to, amount) =
                  Outcome(contract, "InsufficientAllowance", <<>>)

\* A self-approval has just been refused while an account holds funds that
\* it can move with transfer.
C35_Witness ==
    /\ ret = [op |-> "approve", res |-> "SelfTransfer"]
    /\ \E a \in Address, to \in Address :
          /\ balance_of(contract, a) > 0
          /\ transfer(contract, a, to, 1).res = "Ok"
          /\ transfer_from(contract, a, a, to, 1).res = "InsufficientAllowance"

\* The errors the checks on the caller's input and holdings give.
CallerErrors ==
    {"InvalidAmount", "ExceedsMaximum", "SelfTransfer", "InsufficientAllowance",
     "InsufficientBalance"}

\* C36: in every reachable state transfer, transfer_from and unstake return
\* Ok or one of InvalidAmount, ExceedsMaximum, SelfTransfer,
\* InsufficientAllowance, InsufficientBalance: the arithmetic guards and the
\* consistency check never fail in them.  ArithmeticOverflow is returned by
\* stake only, and only for a valid amount with Total Issued + amount above
\* the largest value of the type.
C36_GuardsUnreachable ==
    \A caller \in Address, to \in Address, amount \in Amounts :
        /\ transfer(contract, caller, to, amount).res \in CallerErrors \cup {"Ok"}
        /\ unstake(contract, caller, amount).res \in CallerErrors \cup {"Ok"}
        /\ approve(contract, caller, to, amount).res \in CallerErrors \cup {"Ok"}
        /\ \A owner \in Address :
              transfer_from(contract, caller, owner, to, amount).res
                  \in CallerErrors \cup {"Ok"}
        /\ stake(contract, caller, amount).res
              \in CallerErrors \cup {"Ok", "ArithmeticOverflow"}
        /\ stake(contract, caller, amount).res = "ArithmeticOverflow" =>
              /\ amount \in ValidAmounts
              /\ total_supply(contract) + amount > U256_MAX

\* A deposit has just been refused because Total Issued would not fit,
\* though the caller's own balance would: the whole supply is issued and
\* spread over several accounts, which can still transfer and withdraw.
C36_Witness ==
    /\ ret = [op |-> "stake", res |-> "ArithmeticOverflow"]
    /\ total_supply(contract) = U256_MAX
    /\ \A a \in Address : balance_of(contract, a) < U256_MAX
    /\ \E a \in Address, b \in Address :
          /\ transfer(contract, a, b, 1).res = "Ok"
          /\ unstake(contract, b, 1).res = "Ok"

\* The largest amount `a` can withdraw in one call: its balance, or the
\* ceiling if the balance is above it.
LargestWithdraw(self, a) ==
    IF balance_of(self, a) > MAX_AMOUNT THEN MAX_AMOUNT ELSE balance_of(self, a)

\* The struct after `a` has withdrawn the largest amount again and again,
\* until its balance is zero or a withdraw fails to lower it.
RECURSIVE Drained(_, _)
Drained(self, a) ==
    IF balance_of(self, a) = 0 THEN self
    ELSE LET out == unstake(self, a, LargestWithdraw(self, a)) IN
         IF out.res # "Ok" \/ balance_of(out.self, a) >= balance_of(self, a)
         THEN self
         ELSE Drained(out.self, a)

\* C37: funds are never locked.  In every reachable state a withdraw by any
\* account of any amount between 1 and the smaller of its balance and the
\* ceiling succeeds and lowers its balance by that amount; and its own
\* withdraw calls alone, finitely many, bring its balance to zero without
\* touching another account's balance.
C37_NeverLocked ==
    \A a \in Address :
        /\ \A amount \in ValidAmounts :
              amount <= balance_of(contract, a) =>
                  /\ unstake(contract, a, amount).res = "Ok"
                  /\ balance_of(unstake(contract, a, amount).self, a) =
                        balance_of(contract, a) - amount
        /\ balance_of(Drained(contract, a), a) = 0
        /\ \A b \in Address \ {a} :
              balance_of(Drained(contract, a), b) = balance_of(contract, b)

\* After other callers' transfers one account holds more than the ceiling
\* (it needs more than one withdraw to empty it) while another holds funds too.
C37_Witness ==
    /\ ret.op \in {"transfer", "transfer_from"}
    /\ ret.res = "Ok"
    /\ \E a \in Address, b \in Address :
          /\ a # b
          /\ balance_of(contract, a) > MAX_AMOUNT
          /\ balance_of(contract, b) > 0
          /\ \E p \in LargeApprovePairs : p[1] = a /\ contract.allowances[p] > 0

\* C38: an account's balance is lowered only with its authorisation.  A call
\* of transfer, stake or unstake lowers no balance but the caller's, and the
\* caller's by the amount of the call; approve lowers none; a transfer_from
\* lowers no balance but the owner's, by the amount of the call, and only if
\* the caller's allowance from the owner was at least that amount before it.
C38_AuthorisedDebit ==
    \A caller \in Address, to \in Address, amount \in Amounts :
        LET moved == transfer(contract, caller, to, amount).self
            burned == unstake(contract, caller, amount).self
            minted == stake(contract, caller, amount).self
            granted == approve(contract, caller, to, amount).self IN
        /\ \A a \in Address :
              /\ balance_of(moved, a) < balance_of(contract, a) =>
                    /\ a = caller
                    /\ balance_of(moved, a) = balance_of(contract, a) - amount
              /\ balance_of(burned, a) < balance_of(contract, a) =>
                    /\ a = caller
                    /\ balance_of(burned, a) = balance_of(contract, a) - amount
              /\ balance_of(minted, a) >= balance_of(contract, a)
              /\ balance_of(granted, a) = balance_of(contract, a)
        /\ \A owner \in Address :
              LET drawn == transfer_from(contract, caller, owner, to, amount).self IN
              \A a \in Address :
                  balance_of(drawn, a) < balance_of(contract, a) =>
                      /\ a = owner
                      /\ balance_of(drawn, a) = balance_of(contract, a) - amount
                      /\ allowance(contract, owner, caller) >= amount

\* A spender has just drawn on an owner's balance and used its allowance up,
\* while the owner still holds funds the spender can no longer reach.
C38_Witness ==
    /\ ret = [op |-> "transfer_from", res |-> "Ok"]
    /\ \E p \in LargeApprovePairs :
          /\ contract.allowances[p] = 0
          /\ balance_of(contract, p[1]) > 0
          /\ \A to \in Address :
                transfer_from(contract, p[2], p[1], to, 1).res = "InsufficientAllowance"

\* C39: between one successful approve(owner, spender, m) and the owner's
\* next successful approve for that spender, what the spender's successful
\* transfer_from calls take out of the owner's balance never exceeds m,
\* whatever calls other accounts make in between.
C39_SpendWithinGrant ==
    \A p \in Address \X Address : log.drawn[p] <= log.granted[p]

\* A spender has drawn the whole of a grant above the ceiling, so in more
\* than one call, and a further call has just been refused although the owner
\* still holds funds.
C39_Witness ==
    /\ ret = [op |-> "transfer_from", res |-> "InsufficientAllowance"]
    /\ \E p \in LargeApprovePairs :
          /\ log.granted[p] > MAX_AMOUNT
          /\ log.drawn[p] = log.granted[p]
          /\ balance_of(contract, p[1]) > 0

\* C40: after any sequence of calls the events agree with the ledger: the
\* units minted named by the StakeEvents less the units burned named by the
\* UnstakeEvents equal total_supply(), and for every account the amounts of
\* the Transfer events into it less those out of it equal its balance.
C40_LogMatchesLedger ==
    /\ log.issued = total_supply(contract)
    /\ \A a \in Address : log.net[a] = balance_of(contract, a)

\* Deposits, a transfer_from, and a withdraw that has just succeeded lie
\* behind a state in which two accounts hold funds.
C40_Witness ==
    /\ ret = [op |-> "unstake", res |-> "Ok"]
    /\ \E p \in LargeApprovePairs : log.drawn[p] > 0
    /\ \E a \in Address, b \in Address :
          a # b /\ balance_of(contract, a) > 0 /\ balance_of(contract, b) > 0

====
